---- MODULE Spec2Model ----
(***************************************************************************)
(* A model of the F1 data server: src/f1api.js (the version merged with    *)
(* server.js) and src/unnamed/part_000 (the router-only version).          *)
(*                                                                         *)
(* JavaScript values are records tagged by the field t.  A string is the   *)
(* sequence of its characters (or of atoms standing for several            *)
(* characters with no white space in them).  The data files, the child     *)
(* process and the view engine are the environment: a handler draws what   *)
(* it reads from them when it reads it.                                    *)
(***************************************************************************)
EXTENDS Integers, Sequences, FiniteSets, TLC

VARIABLES
    version,    \* which source file is the running server
    req,        \* per request slot: the handler's position and its closure
    uncaught,   \* an error reached the Node process without a handler
    slugArg,    \* the argument of a stand-alone slugify call
    slugOut,    \* the result of the last stand-alone slugify call
    slugFirst,  \* the result of the first of two chained calls
    slugCalls   \* the number of stand-alone calls made

vars == <<version, req, uncaught, slugArg, slugOut, slugFirst, slugCalls>>

-----------------------------------------------------------------------------
(* Bounds of the model *)

MaxLen == 4        \* longest text handed to slugify
MaxData == 3       \* most 'data' events of one child process
MaxDrivers == 2    \* most entries of drivers.json

-----------------------------------------------------------------------------
(* JavaScript values *)

Null == [t |-> "null"]
Undefined == [t |-> "undefined"]
Str(s) == [t |-> "string", s |-> s]
Num(n) == [t |-> "number", n |-> n]
Arr(a) == [t |-> "array", a |-> a]
NaN == [t |-> "nan"]

\* ToBoolean
Truthy(v) ==
    CASE v.t = "null" -> FALSE
      [] v.t = "undefined" -> FALSE
      [] v.t = "string" -> v.s # <<>>
      [] v.t = "number" -> v.n # 0
      [] v.t = "nan" -> FALSE
      [] OTHER -> TRUE

DigitChar == <<"0", "1", "2", "3", "4", "5", "6", "7", "8", "9">>

RECURSIVE DecimalDigits(_)
DecimalDigits(n) ==
    IF n < 10 THEN <<DigitChar[n + 1]>>
    ELSE DecimalDigits(n \div 10) \o <<DigitChar[(n % 10) + 1]>>

UndefinedText == <<"u", "n", "d", "e", "f", "i", "n", "e", "d">>

\* String(v), as a sequence of characters
String(v) ==
    CASE v.t = "string" -> v.s
      [] v.t = "number" -> DecimalDigits(v.n)
      [] v.t = "null" -> <<"n", "u", "l", "l">>
      [] v.t = "undefined" -> UndefinedText
      [] v.t = "nan" -> <<"N", "a", "N">>
      [] OTHER -> <<"[object Object]">>

-----------------------------------------------------------------------------
(* Text *)

LowerLetters ==
    {"a", "b", "c", "d", "e", "f", "g", "h", "i", "j", "k", "l", "m",
     "n", "o", "p", "q", "r", "s", "t", "u", "v", "w", "x", "y", "z"}
DigitChars == {"0", "1", "2", "3", "4", "5", "6", "7", "8", "9"}
WhiteSpace == {" ", "\t", "\n"}

\* String.prototype.toLowerCase, on the characters the model uses
LowerChar(c) ==
    CASE c = "A" -> "a"
      [] c = "B" -> "b"
      [] c = "H" -> "h"
      [] OTHER -> c

toLowerCase(s) == [i \in 1..Len(s) |-> LowerChar(s[i])]

RECURSIVE trimStart(_)
trimStart(s) ==
    IF s # <<>> /\ Head(s) \in WhiteSpace THEN trimStart(Tail(s)) ELSE s

RECURSIVE trimEnd(_)
trimEnd(s) ==
    IF s # <<>> /\ s[Len(s)] \in WhiteSpace
    THEN trimEnd(SubSeq(s, 1, Len(s) - 1))
    ELSE s

\* String.prototype.trim
trim(s) == trimEnd(trimStart(s))

\* the characters the class [^a-z0-9\s-] does not match
SlugKept(c) == c \in LowerLetters \cup DigitChars \cup WhiteSpace \cup {"-"}

\* .replace(/[^a-z0-9\s-]/g, '')
stripOthers(s) == SelectSeq(s, SlugKept)

\* .replace(/\s+/g, '-')
RECURSIVE hyphenateRuns(_)
hyphenateRuns(s) ==
    IF s = <<>> THEN <<>>
    ELSE IF Head(s) \in WhiteSpace
         THEN <<"-">> \o hyphenateRuns(trimStart(s))
         ELSE <<Head(s)>> \o hyphenateRuns(Tail(s))

\* a slugify that writes one hyphen per white-space character
slugifyPerSpace(text) ==
    LET s == stripOthers(trim(toLowerCase(
                 IF Truthy(text) THEN String(text) ELSE <<>>)))
    IN [i \in 1..Len(s) |-> IF s[i] \in WhiteSpace THEN "-" ELSE s[i]]

\* a slugify that joins the words with an underscore
slugifyUnderscore(text) ==
    LET s == hyphenateRuns(stripOthers(trim(toLowerCase(
                 IF Truthy(text) THEN String(text) ELSE <<>>))))
    IN [i \in 1..Len(s) |-> IF s[i] = "-" THEN "_" ELSE s[i]]

\* slugify(text): String(text || '').toLowerCase().trim()
\*                .replace(/[^a-z0-9\s-]/g, '').replace(/\s+/g, '-')
slugify(text) ==
    hyphenateRuns(stripOthers(trim(toLowerCase(
        IF Truthy(text) THEN String(text) ELSE <<>>))))

-----------------------------------------------------------------------------
(* The environment: data files, as a handler finds them when it reads them *)

Missing == [kind |-> "missing"]
Malformed == [kind |-> "malformed"]
Json(v) == [kind |-> "json", value |-> v]
NotRead == [kind |-> "unread"]

\* readJSON(filePath): the parsed content, null when reading or parsing fails
readJSON(file) == IF file.kind = "json" THEN file.value ELSE Null

\* drivers.json
Driver(name, team, number) ==
    [t |-> "driver", full_name |-> Str(name), team_name |-> Str(team),
     number |-> Num(number)]
DriverPool ==
    {Driver(<<"A", " ", "a">>, <<"T1">>, 44),
     Driver(<<"a", "-", "a">>, <<"T2">>, 0),
     Driver(<<"H", "!">>, <<"T2">>, 7)}

RECURSIVE ListsUpTo(_, _)
ListsUpTo(pool, n) ==
    IF n = 0 THEN {<<>>}
    ELSE LET shorter == ListsUpTo(pool, n - 1)
         IN shorter \cup {Append(l, x) : l \in shorter, x \in pool}

FilesOf(lists) == {Missing, Malformed} \cup {Json(Arr(l)) : l \in lists}

DriversDisk == FilesOf(ListsUpTo(DriverPool, MaxDrivers))
DriverIds == {<<"a", "-", "a">>, <<"h">>, <<"z">>}

\* driver_descriptions.json: an object keyed by full name
Dict(m) == [t |-> "dict", m |-> m]
DescriptionsDisk ==
    {Missing, Malformed, Json(Dict(<<>>)),
     Json(Dict([k \in {<<"A", " ", "a">>} |-> Str(<<"champion">>)]))}

\* stats/<slug>.json
Plain(name) == [t |-> "object", name |-> name]
Stats(season, career) == [t |-> "stats", season |-> season, career |-> career]
StatsDisk ==
    {Missing, Json(Stats(Plain("season"), Plain("career"))),
     Json(Stats(Undefined, Plain("career")))}

\* teams.json
Team(slug, name) == [t |-> "team", slug |-> Str(slug), team_name |-> Str(name)]
TeamPool == {Team(<<"t", "1">>, <<"T1">>), Team(<<"t", "2">>, <<"T2">>)}
TeamsDisk == FilesOf(ListsUpTo(TeamPool, 2))
TeamIds == {<<"t", "1">>, <<"t", "2">>, <<"z">>}

\* f1_terms.json
TermsDisk == FilesOf({<<>>, <<Plain("DRS")>>})

\* schedule.json
Session(key, circuit, year, date, meeting, session) ==
    [t |-> "session", session_key |-> Num(key), circuit_short_name |-> circuit,
     session_year |-> year, date_start |-> date, meeting_name |-> meeting,
     session_name |-> session]
SessionA ==
    Session(1, Str(<<"B", "a", " ", "h">>), Num(2024), Undefined,
            Str(<<"GP">>), Str(<<"Race">>))
SessionB ==
    Session(2, Undefined, Undefined, Str(<<"2023", "-03-05">>),
            Str(<<"GP">>), Str(<<"Race">>))
SessionC ==
    Session(1, Str(<<>>), Str(UndefinedText), Str(<<"2023", "-03-05">>),
            Undefined, Str(<<"Race">>))
SessionD ==
    Session(2, Str(<<"B", "a", " ", "h">>), Undefined, Str(<<"soon">>),
            Str(<<"GP">>), Str(<<"Race">>))
ScheduleDisk ==
    FilesOf({<<>>, <<SessionB, SessionA>>, <<SessionC>>, <<SessionD>>})
SessionKeys == {<<"1">>, <<"2">>}

NoDisk ==
    [schedule |-> NotRead, layouts |-> NotRead, drivers |-> NotRead,
     f1Teams |-> NotRead, teams |-> NotRead, descriptions |-> NotRead,
     stats |-> NotRead, terms |-> NotRead]

-----------------------------------------------------------------------------
(* Requests *)

Slots == {"r1", "r2"}

NoLocals ==
    [sessionInfo |-> Undefined, trackImageUrl |-> Undefined,
     layout |-> Undefined, drivers |-> Undefined, f1Teams |-> Undefined]
NoProc ==
    [state |-> "none", args |-> <<>>, stdout |-> <<>>, stderr |-> <<>>,
     outLog |-> <<>>, errLog |-> <<>>, code |-> Undefined]
NoPromise == [state |-> "none", value |-> <<>>, settles |-> 0]

Idle ==
    [pc |-> "idle", route |-> "", param |-> <<>>, disk |-> NoDisk,
     images |-> {}, scriptExists |-> FALSE, local |-> NoLocals,
     proc |-> NoProc, promise |-> NoPromise, responses |-> <<>>,
     rejected |-> FALSE, threw |-> 0]

\* what res.status(status).render(view, model) or res.json(model) sends
Response(status, kind, view, model) ==
    [status |-> status, kind |-> kind, view |-> view, model |-> model]

\* the try block ran to its render call, or threw before it
Ok(status, model) ==
    [threw |-> FALSE, status |-> status, model |-> model, msg |-> <<>>]
Throw(msg) ==
    [threw |-> TRUE, status |-> 0, model |-> [error |-> Null], msg |-> msg]

TypeErrorNull == <<"Cannot read properties of null">>
RenderError == <<"render failed">>

\* how many of a request's first calls of res.render throw
RenderFaults == {0, 1, 2}

\* e.message in the catch block: of the error the try block threw, or of its
\* render call
CaughtMsg(body) == IF body.threw THEN body.msg ELSE RenderError

\* try { ...; res.status(s).render(view, model) }
\* catch (e) { res.status(catchStatus).render(view, caught) }
\* with the first `faults` calls of res.render throwing; a throw inside the
\* catch block rejects the promise of the async handler.
TryCatchRender(body, view, catchStatus, caught, faults) ==
    IF body.threw
    THEN IF faults >= 1
         THEN [responses |-> <<>>, rejected |-> TRUE, threw |-> 1]
         ELSE [responses |->
                   <<Response(catchStatus, "render", view, caught)>>,
               rejected |-> FALSE, threw |-> 0]
    ELSE IF faults = 0
         THEN [responses |->
                   <<Response(body.status, "render", view, body.model)>>,
               rejected |-> FALSE, threw |-> 0]
         ELSE IF faults = 1
              THEN [responses |->
                        <<Response(catchStatus, "render", view, caught)>>,
                    rejected |-> FALSE, threw |-> 1]
              ELSE [responses |-> <<>>, rejected |-> TRUE, threw |-> 2]

\* the request in slot r ends with what its handler sent
Finish(r, route, param, disk, out) ==
    req' = [req EXCEPT ![r] =
                [Idle EXCEPT !.pc = "done", !.route = route, !.param = param,
                             !.disk = disk, !.responses = out.responses,
                             !.rejected = out.rejected, !.threw = out.threw]]

SlugUnchanged == UNCHANGED <<slugArg, slugOut, slugFirst, slugCalls>>

OrEmpty(v) == IF Truthy(v) THEN v ELSE Arr(<<>>)

-----------------------------------------------------------------------------
(* GET /schedule, /drivers, /teams, /glossary *)

ScheduleCatch(msg) ==
    [year |-> Num(2026), schedule |-> Arr(<<>>),
     error |-> Str(<<"could not load the schedule data">>),
     currentPage |-> "schedule"]

\* router.get('/schedule'): neither block sets a status
GetSchedule(r) ==
    /\ ~uncaught /\ req[r].pc = "idle"
    /\ \E file \in ScheduleDisk, faults \in RenderFaults :
         LET schedule == readJSON(file)
             body == Ok(200, [year |-> Num(2026), schedule |-> OrEmpty(schedule),
                              error |-> Null, currentPage |-> "schedule"])
         IN Finish(r, "/schedule", <<>>, [NoDisk EXCEPT !.schedule = file],
                   TryCatchRender(body, "schedule", 200,
                                  ScheduleCatch(CaughtMsg(body)), faults))
    /\ UNCHANGED <<version, uncaught>> /\ SlugUnchanged

DriversCatch(msg) ==
    [drivers |-> Arr(<<>>), error |-> Str(<<"failed to load the driver data">>),
     currentPage |-> "drivers"]

\* router.get('/drivers')
GetDrivers(r) ==
    /\ ~uncaught /\ req[r].pc = "idle"
    /\ \E file \in DriversDisk, faults \in RenderFaults :
         LET drivers == readJSON(file)
             body == Ok(200, [drivers |-> OrEmpty(drivers), error |-> Null,
                              currentPage |-> "drivers"])
         IN Finish(r, "/drivers", <<>>, [NoDisk EXCEPT !.drivers = file],
                   TryCatchRender(body, "drivers", 500,
                                  DriversCatch(CaughtMsg(body)), faults))
    /\ UNCHANGED <<version, uncaught>> /\ SlugUnchanged

TeamsCatch(msg) ==
    [teams |-> Arr(<<>>), error |-> Str(<<"failed to load the team data">>),
     currentPage |-> "teams"]

\* router.get('/teams')
GetTeams(r) ==
    /\ ~uncaught /\ req[r].pc = "idle"
    /\ \E file \in TeamsDisk, faults \in RenderFaults :
         LET teams == readJSON(file)
             body == Ok(200, [teams |-> OrEmpty(teams), error |-> Null,
                              currentPage |-> "teams"])
         IN Finish(r, "/teams", <<>>, [NoDisk EXCEPT !.teams = file],
                   TryCatchRender(body, "teams", 500,
                                  TeamsCatch(CaughtMsg(body)), faults))
    /\ UNCHANGED <<version, uncaught>> /\ SlugUnchanged

GlossaryCatch(msg) ==
    [terms |-> Arr(<<>>), error |-> Str(<<"failed to load the glossary data">>),
     currentPage |-> "glossary"]

\* router.get('/glossary')
GetGlossary(r) ==
    /\ ~uncaught /\ req[r].pc = "idle"
    /\ \E file \in TermsDisk, faults \in RenderFaults :
         LET terms == readJSON(file)
             body == Ok(200, [terms |-> OrEmpty(terms), error |-> Null,
                              currentPage |-> "glossary"])
         IN Finish(r, "/glossary", <<>>, [NoDisk EXCEPT !.terms = file],
                   TryCatchRender(body, "glossary", 500,
                                  GlossaryCatch(CaughtMsg(body)), faults))
    /\ UNCHANGED <<version, uncaught>> /\ SlugUnchanged

-----------------------------------------------------------------------------
(* GET /drivers/:driverId *)

\* a lookup that keeps the last match
RECURSIVE findDriverLast(_, _)
findDriverLast(drivers, driverId) ==
    IF drivers = <<>> THEN Undefined
    ELSE IF slugify(drivers[Len(drivers)].full_name) = driverId
         THEN drivers[Len(drivers)]
         ELSE findDriverLast(SubSeq(drivers, 1, Len(drivers) - 1), driverId)

\* drivers.find(d => slugify(d.full_name) === driverId)
RECURSIVE findDriverFrom(_, _)
findDriverFrom(drivers, driverId) ==
    IF drivers = <<>> THEN Undefined
    ELSE IF slugify(Head(drivers).full_name) = driverId THEN Head(drivers)
         ELSE findDriverFrom(Tail(drivers), driverId)

findDriver(drivers, driverId) == findDriverFrom(drivers, driverId)

\* obj[key]
Lookup(dict, key) == IF key \in DOMAIN dict.m THEN dict.m[key] ELSE Undefined

Or(a, b) == IF Truthy(a) THEN a ELSE b

\* driverStats?.season, driverStats?.career
StatField(stats, field) ==
    IF stats.t \in {"null", "undefined"} THEN Undefined
    ELSE IF field = "season" THEN stats.season ELSE stats.career

DriverDetailModel(info, description, season, career, error) ==
    [info |-> info, description |-> description, season |-> season,
     career |-> career, error |-> error, currentPage |-> "drivers"]

DriverDetailCatch(msg) ==
    DriverDetailModel(Null, Null, Plain("{}"), Plain("{}"),
                      Str(<<"failed to load the driver data">>))

\* the try block of router.get('/drivers/:driverId')
DriverDetailBody(driverId, driversFile, descFile, statsFile) ==
    LET drivers == readJSON(driversFile)
    IN IF drivers.t # "array" THEN Throw(TypeErrorNull)
       ELSE LET driver == findDriver(drivers.a, driverId)
            IN IF ~Truthy(driver)
               THEN Ok(404, DriverDetailModel(Null, Null, Plain("{}"), Plain("{}"),
                                Str(<<"the driver was not found">>)))
               ELSE LET driverDescriptions == readJSON(descFile)
                    IN IF driverDescriptions.t # "dict" THEN Throw(TypeErrorNull)
                       ELSE LET description ==
                                    Or(Lookup(driverDescriptions,
                                              String(driver.full_name)),
                                       Str(<<"no further information">>))
                                driverStats == readJSON(statsFile)
                            IN Ok(200, DriverDetailModel(driver, description,
                                     Or(StatField(driverStats, "season"), Plain("{}")),
                                     Or(StatField(driverStats, "career"), Plain("{}")),
                                     Null))

\* the files the handler got to read
DriverDetailDisk(driverId, driversFile, descFile, statsFile) ==
    LET drivers == readJSON(driversFile)
        found == drivers.t = "array" /\ Truthy(findDriver(drivers.a, driverId))
    IN [NoDisk EXCEPT
          !.drivers = driversFile,
          !.descriptions = IF found THEN descFile ELSE NotRead,
          !.stats = IF found /\ readJSON(descFile).t = "dict"
                    THEN statsFile ELSE NotRead]

\* router.get('/drivers/:driverId')
GetDriverDetail(r) ==
    /\ ~uncaught /\ req[r].pc = "idle"
    /\ \E driverId \in DriverIds, driversFile \in DriversDisk,
          descFile \in DescriptionsDisk, statsFile \in StatsDisk,
          faults \in RenderFaults :
         Finish(r, "/drivers/:driverId", driverId,
                DriverDetailDisk(driverId, driversFile, descFile, statsFile),
                LET body == DriverDetailBody(driverId, driversFile, descFile,
                                             statsFile)
                IN TryCatchRender(body, "driver-detail", 500,
                                  DriverDetailCatch(CaughtMsg(body)), faults))
    /\ UNCHANGED <<version, uncaught>> /\ SlugUnchanged

-----------------------------------------------------------------------------
(* GET /teams/:teamId *)

\* teams.find(t => t.slug === teamId)
RECURSIVE findTeam(_, _)
findTeam(teams, teamId) ==
    IF teams = <<>> THEN Undefined
    ELSE IF Head(teams).slug = Str(teamId) THEN Head(teams)
         ELSE findTeam(Tail(teams), teamId)

TeamDetailModel(info, drivers, error) ==
    [info |-> info, drivers |-> drivers, error |-> error, currentPage |-> "teams"]

TeamDetailCatch(msg) ==
    TeamDetailModel(Null, Arr(<<>>), Str(<<"failed to load the team data">>))

\* the try block of router.get('/teams/:teamId')
TeamDetailBody(teamId, teamsFile, driversFile) ==
    LET teams == readJSON(teamsFile)
    IN IF teams.t # "array" THEN Throw(TypeErrorNull)
       ELSE LET team == findTeam(teams.a, teamId)
            IN IF ~Truthy(team)
               THEN Ok(404, TeamDetailModel(Null, Arr(<<>>),
                                Str(<<"the team was not found">>)))
               ELSE LET drivers == readJSON(driversFile)
                    IN IF drivers.t # "array" THEN Throw(TypeErrorNull)
                       ELSE LET sameTeam(d) == d.team_name = team.team_name
                            IN Ok(200, TeamDetailModel(team,
                                     Arr(SelectSeq(drivers.a, sameTeam)), Null))

TeamDetailDisk(teamId, teamsFile, driversFile) ==
    LET teams == readJSON(teamsFile)
        found == teams.t = "array" /\ Truthy(findTeam(teams.a, teamId))
    IN [NoDisk EXCEPT !.teams = teamsFile,
                     !.drivers = IF found THEN driversFile ELSE NotRead]

\* router.get('/teams/:teamId')
GetTeamDetail(r) ==
    /\ ~uncaught /\ req[r].pc = "idle"
    /\ \E teamId \in TeamIds, teamsFile \in TeamsDisk,
          driversFile \in DriversDisk, faults \in RenderFaults :
         Finish(r, "/teams/:teamId", teamId,
                TeamDetailDisk(teamId, teamsFile, driversFile),
                LET body == TeamDetailBody(teamId, teamsFile, driversFile)
                IN TryCatchRender(body, "team-detail", 500,
                                  TeamDetailCatch(CaughtMsg(body)), faults))
    /\ UNCHANGED <<version, uncaught>> /\ SlugUnchanged

-----------------------------------------------------------------------------
(* GET /replays/:session_key: the part both versions share *)

\* track_layouts.json
Layout(circuit) == [t |-> "layout", circuit_short_name |-> Str(circuit)]
LayoutsDisk ==
    {Missing, Malformed, Json(Arr(<<>>)),
     Json(Arr(<<Layout(<<"b", "a", "-", "h">>)>>))}

\* f1_team.json
F1Team(name, colour) ==
    [t |-> "f1team", name |-> Str(name), teamColor |-> Str(colour)]
F1TeamsDisk == {Missing, Json(Arr(<<F1Team(<<"T1">>, <<"#E10600">>)>>))}

\* drivers.json as the replay page reads it
ReplayDriversDisk ==
    {Missing,
     Json(Arr(<<Driver(<<"H", "!">>, <<"T2">>, 7),
                Driver(<<"A", " ", "a">>, <<"T1">>, 44),
                Driver(<<"a", "-", "a">>, <<"T2">>, 0)>>))}

\* public/images/tracks
ImageName(circuitName, ext) == circuitName \o <<".", ext>>
ImagePool ==
    {ImageName(<<"b", "a", "-", "h">>, ext) :
        ext \in {"avif", "png", "webp", "jpg", "jpeg"}}
\* directories holding at most one of the files, or the files of the listed
\* extensions
ImageDirs ==
    {dir \in SUBSET ImagePool : Cardinality(dir) <= 1}
        \cup {{ImageName(<<"b", "a", "-", "h">>, ext) : ext \in exts} :
                 exts \in {{"avif", "png", "webp", "jpg", "jpeg"},
                           {"png", "webp", "jpg", "jpeg"},
                           {"webp", "jpg", "jpeg"},
                           {"jpg", "jpeg"}}}

\* an extension list that tries png first
pngFirstExtensions == <<"png", "avif", "webp", "jpg", "jpeg">>

\* const possibleExtensions = ['avif', 'png', 'webp', 'jpg', 'jpeg']
possibleExtensions == <<"avif", "png", "webp", "jpg", "jpeg">>

\* schedule?.find(s => String(s.session_key) === session_key)
RECURSIVE findSession(_, _)
findSession(sessions, session_key) ==
    IF sessions = <<>> THEN Undefined
    ELSE IF String(Head(sessions).session_key) = session_key THEN Head(sessions)
         ELSE findSession(Tail(sessions), session_key)

sessionOf(schedule, session_key) ==
    IF schedule.t = "array" THEN findSession(schedule.a, session_key)
    ELSE Undefined

\* sessionInfo.circuit_short_name?.toLowerCase().replace(/\s+/g, '-')
circuitNameOf(sessionInfo) ==
    IF sessionInfo.circuit_short_name.t \in {"null", "undefined"} THEN Undefined
    ELSE Str(hyphenateRuns(toLowerCase(sessionInfo.circuit_short_name.s)))

\* layouts?.find(l => l.circuit_short_name === circuitName)
RECURSIVE findLayout(_, _)
findLayout(layouts, circuitName) ==
    IF layouts = <<>> THEN Undefined
    ELSE IF Head(layouts).circuit_short_name = circuitName THEN Head(layouts)
         ELSE findLayout(Tail(layouts), circuitName)

layoutOf(layouts, circuitName) ==
    IF layouts.t = "array" THEN findLayout(layouts.a, circuitName)
    ELSE Undefined

\* for (const ext of possibleExtensions) { if (fs.existsSync(...)) ...; break }
RECURSIVE probeImage(_, _, _)
probeImage(exts, circuitName, images) ==
    IF exts = <<>> THEN Null
    ELSE IF ImageName(circuitName, Head(exts)) \in images
         THEN Str(<<"/images/tracks/">> \o ImageName(circuitName, Head(exts)))
         ELSE probeImage(Tail(exts), circuitName, images)

trackImageUrlOf(circuitName, images) ==
    IF Truthy(circuitName)
    THEN probeImage(possibleExtensions, circuitName.s, images)
    ELSE Null

\* teamInfoMap[d.team_name]?.color, teamInfoMap built by f1Teams.reduce
RECURSIVE teamColour(_, _)
teamColour(f1Teams, name) ==
    IF f1Teams = <<>> THEN Undefined
    ELSE IF f1Teams[Len(f1Teams)].name = name
         THEN f1Teams[Len(f1Teams)].teamColor
         ELSE teamColour(SubSeq(f1Teams, 1, Len(f1Teams) - 1), name)

\* drivers.forEach(d => { if (d.number) driverDirectory[d.number] = ... })
driverDirectoryOf(drivers, f1Teams) ==
    IF Truthy(drivers) /\ Truthy(f1Teams)
    THEN LET numbered == {i \in 1..Len(drivers.a) : Truthy(drivers.a[i].number)}
             last(key) == CHOOSE i \in numbered :
                              /\ String(drivers.a[i].number) = key
                              /\ \A j \in numbered :
                                    String(drivers.a[j].number) = key => j <= i
         IN Dict([key \in {String(drivers.a[i].number) : i \in numbered} |->
                    [full_name |-> drivers.a[last(key)].full_name,
                     team_colour |->
                         Or(teamColour(f1Teams.a, drivers.a[last(key)].team_name),
                            Str(<<"#FFFFFF">>))]])
    ELSE Dict(<<>>)

\* { ...sessionInfo, trackImageUrl, layout } and what the race timing adds
FinalSessionInfo(sessionInfo, trackImageUrl, layout, raceTiming) ==
    [t |-> "session", session_key |-> sessionInfo.session_key,
     circuit_short_name |-> sessionInfo.circuit_short_name,
     session_year |-> sessionInfo.session_year,
     date_start |-> IF Truthy(raceTiming.race_start_date)
                    THEN raceTiming.race_start_date
                    ELSE sessionInfo.date_start,
     meeting_name |-> sessionInfo.meeting_name,
     session_name |-> sessionInfo.session_name,
     trackImageUrl |-> trackImageUrl, layout |-> layout,
     race_end_date |-> IF Truthy(raceTiming.race_end_date)
                       THEN raceTiming.race_end_date ELSE Undefined,
     race_control_messages |-> IF Truthy(raceTiming.all_messages)
                               THEN raceTiming.all_messages ELSE Undefined]

Timing(error, start, end, messages) ==
    [t |-> "timing", error |-> error, race_start_date |-> start,
     race_end_date |-> end, all_messages |-> messages]
NoTiming == Timing(Undefined, Undefined, Undefined, Undefined)

ReplayModel(session_key, driverDirectory, sessionInfo, error) ==
    [session_key |-> Str(session_key), driverDirectory |-> driverDirectory,
     sessionInfo |-> sessionInfo, currentPage |-> "schedule", error |-> error]

ReplayNotFound ==
    Ok(404, [error |-> Str(<<"the session was not found">>)])

\* the closure of the handler after its synchronous part
ReplayLocals(session_key, scheduleFile, layoutsFile, images, driversFile, teamsFile) ==
    LET sessionInfo == sessionOf(readJSON(scheduleFile), session_key)
        circuitName == circuitNameOf(sessionInfo)
    IN [sessionInfo |-> sessionInfo,
        trackImageUrl |-> trackImageUrlOf(circuitName, images),
        layout |-> layoutOf(readJSON(layoutsFile), circuitName),
        drivers |-> readJSON(driversFile),
        f1Teams |-> readJSON(teamsFile)]

ReplayDisk(scheduleFile, layoutsFile, driversFile, teamsFile, found) ==
    [NoDisk EXCEPT !.schedule = scheduleFile, !.layouts = layoutsFile,
                   !.drivers = IF found THEN driversFile ELSE NotRead,
                   !.f1Teams = IF found THEN teamsFile ELSE NotRead]

-----------------------------------------------------------------------------
(* GET /replays/:session_key in part_000: no race timing *)

\* what the handlers of /replays and /api/locations can find on disk
WholeDisk ==
    [schedules |-> ScheduleDisk, layouts |-> LayoutsDisk, images |-> ImageDirs,
     drivers |-> ReplayDriversDisk, teams |-> F1TeamsDisk]

ReplayCatchPart000(session_key) ==
    ReplayModel(session_key, Dict(<<>>), Null, Str(<<"page load error">>))

GetReplayPart000On(r, env) ==
    /\ ~uncaught /\ req[r].pc = "idle" /\ version = "part_000"
    /\ \E session_key \in SessionKeys, scheduleFile \in env.schedules,
          layoutsFile \in env.layouts, images \in env.images,
          driversFile \in env.drivers, teamsFile \in env.teams,
          faults \in RenderFaults :
         LET l == ReplayLocals(session_key, scheduleFile, layoutsFile, images,
                               driversFile, teamsFile)
             found == Truthy(sessionOf(readJSON(scheduleFile), session_key))
             body == IF ~found THEN ReplayNotFound
                     ELSE Ok(200, ReplayModel(session_key,
                                 driverDirectoryOf(l.drivers, l.f1Teams),
                                 FinalSessionInfo(l.sessionInfo, l.trackImageUrl,
                                                  l.layout, NoTiming),
                                 Null))
             catchModel(msg) == ReplayCatchPart000(session_key)
             out == TryCatchRender(body, "race-tracker", 500,
                                  catchModel(CaughtMsg(body)), faults)
         IN req' = [req EXCEPT ![r] =
                [Idle EXCEPT
                    !.pc = "done", !.route = "/replays/:session_key",
                    !.param = session_key,
                    !.disk = ReplayDisk(scheduleFile, layoutsFile, driversFile,
                                        teamsFile, found),
                    !.images = images,
                    !.local = IF found THEN l ELSE NoLocals,
                    !.responses = out.responses, !.rejected = out.rejected,
                    !.threw = out.threw]]
    /\ UNCHANGED <<version, uncaught>> /\ SlugUnchanged

\* the handler over every modelled content of the disk
GetReplayPart000(r) == GetReplayPart000On(r, WholeDisk)

-----------------------------------------------------------------------------
(* The external process *)

\* pieces of standard output, as 'data' events deliver them
ChunkTimingOpen == "{\"race_start_date\":\"d0\""
ChunkClose == "}"
ChunkErrorObject == "{\"error\":\"boom\"}"
OutChunks == {ChunkTimingOpen, ChunkClose, ChunkErrorObject}
\* pieces of standard error
ErrChunks == {" ", "Traceback"}
\* the code of the 'close' event: null when a signal ended the process
ExitCodes == {Num(0), Num(1), Null}

\* JSON.parse, on the texts the chunks can form
JSONparse(text) ==
    CASE text = <<ChunkTimingOpen, ChunkClose>> ->
             [ok |-> TRUE,
              value |-> Timing(Undefined, Str(<<"d0">>), Undefined, Undefined)]
      [] text = <<ChunkErrorObject>> ->
             [ok |-> TRUE,
              value |-> Timing(Str(<<"boom">>), Undefined, Undefined, Undefined)]
      [] OTHER -> [ok |-> FALSE, value |-> Undefined]

SyntaxErrorText == <<"Unexpected token in JSON">>

\* an accumulation that puts the new piece first
prependChunk(buffer, data) == <<data>> \o buffer

\* stdout += data.toString(), stderr += data.toString()
appendChunk(buffer, data) == buffer \o <<data>>

\* the 'close' listener of runPython: how the promise settles
settleOnClose(stdout, stderr, code) ==
    IF code # Num(0)
    THEN [state |-> "rejected",
          value |-> IF trim(stderr) # <<>> THEN trim(stderr)
                    ELSE <<"Python script exited with code ">> \o String(code),
          settles |-> 1]
    ELSE [state |-> "resolved", value |-> stdout, settles |-> 1]

\* new Date(date_start).getFullYear()
getFullYear(date) ==
    IF date.t = "string" /\ date.s # <<>> /\ date.s[1] = "2023"
    THEN Num(2023) ELSE NaN

\* let year = sessionInfo.session_year;
\* if ((!year || year === 'undefined') && sessionInfo.date_start) year = ...
yearOf(sessionInfo) ==
    IF (~Truthy(sessionInfo.session_year)
          \/ sessionInfo.session_year = Str(UndefinedText))
       /\ Truthy(sessionInfo.date_start)
    THEN getFullYear(sessionInfo.date_start)
    ELSE sessionInfo.session_year

\* !year || !eventName || !sessionName
incomplete(sessionInfo) ==
    \/ ~Truthy(yearOf(sessionInfo))
    \/ ~Truthy(sessionInfo.meeting_name)
    \/ ~Truthy(sessionInfo.session_name)

Spawned(args) ==
    [state |-> "running", args |-> args, stdout |-> <<>>, stderr |-> <<>>,
     outLog |-> <<>>, errLog |-> <<>>, code |-> Undefined]

DataLeft(r) == Len(req[r].proc.outLog) + Len(req[r].proc.errLog) < MaxData

\* pythonProcess.stdout.on('data') of runPython
PythonStdout(r) ==
    /\ ~uncaught /\ version = "f1api.js" /\ req[r].proc.state = "running"
    /\ DataLeft(r)
    /\ \E data \in OutChunks :
         req' = [req EXCEPT ![r].proc.stdout = appendChunk(@, data),
                            ![r].proc.outLog = Append(@, data)]
    /\ UNCHANGED <<version, uncaught>> /\ SlugUnchanged

\* pythonProcess.stderr.on('data') of runPython
PythonStderr(r) ==
    /\ ~uncaught /\ version = "f1api.js" /\ req[r].proc.state = "running"
    /\ DataLeft(r)
    /\ \E data \in ErrChunks :
         req' = [req EXCEPT ![r].proc.stderr = appendChunk(@, data),
                            ![r].proc.errLog = Append(@, data)]
    /\ UNCHANGED <<version, uncaught>> /\ SlugUnchanged

\* pythonProcess.on('close') of runPython: the promise settles
PythonClose(r) ==
    /\ ~uncaught /\ version = "f1api.js" /\ req[r].proc.state = "running"
    /\ \E code \in ExitCodes :
         req' = [req EXCEPT
                   ![r].proc.state = "closed", ![r].proc.code = code,
                   ![r].promise =
                       [settleOnClose(req[r].proc.stdout, req[r].proc.stderr, code)
                           EXCEPT !.settles = req[r].promise.settles + 1],
                   ![r].pc = "settled"]
    /\ UNCHANGED <<version, uncaught>> /\ SlugUnchanged

\* the child emits 'error' (python cannot be started): no listener is
\* registered in either version, so the EventEmitter throws
SpawnError(r) ==
    /\ ~uncaught /\ req[r].proc.state = "running"
    /\ req' = [req EXCEPT ![r].proc.state = "errored"]
    /\ uncaught' = TRUE
    /\ UNCHANGED version /\ SlugUnchanged

-----------------------------------------------------------------------------
(* GET /replays/:session_key in f1api.js: with the race timing *)

ReplayCatch(session_key, msg) ==
    ReplayModel(session_key, Dict(<<>>), Null,
                Str(<<"page load error: ">> \o msg))

\* the arguments fetchRaceTimingFromPython passes to runPython
timingArgs(sessionInfo) ==
    <<<<"race_times">>, <<"--year">>, String(yearOf(sessionInfo)),
      <<"--event">>, String(sessionInfo.meeting_name),
      <<"--session">>, String(sessionInfo.session_name)>>

IncompleteText(sessionInfo) ==
    <<"Incomplete session data from schedule.json: Year='">>
        \o String(yearOf(sessionInfo)) \o <<"', Event='">>
        \o String(sessionInfo.meeting_name) \o <<"', Session='">>
        \o String(sessionInfo.session_name) \o <<"'">>

\* router.get('/replays/:session_key') up to the await of Promise.all
GetReplayOn(r, env) ==
    /\ ~uncaught /\ req[r].pc = "idle" /\ version = "f1api.js"
    /\ \E session_key \in SessionKeys, scheduleFile \in env.schedules,
          layoutsFile \in env.layouts, images \in env.images,
          driversFile \in env.drivers, teamsFile \in env.teams,
          scriptExists \in BOOLEAN, faults \in RenderFaults :
         LET l == ReplayLocals(session_key, scheduleFile, layoutsFile, images,
                               driversFile, teamsFile)
             found == Truthy(sessionOf(readJSON(scheduleFile), session_key))
             spawns == found /\ ~incomplete(l.sessionInfo) /\ scriptExists
             body == IF ~found THEN ReplayNotFound
                     ELSE IF incomplete(l.sessionInfo)
                          THEN Throw(IncompleteText(l.sessionInfo))
                          ELSE Throw(<<"Python script not found: ",
                                       "get_replay_data.py">>)
             catchModel(msg) == ReplayCatch(session_key, msg)
             out == TryCatchRender(body, "race-tracker", 500,
                                  catchModel(CaughtMsg(body)), faults)
             started == [Idle EXCEPT
                    !.route = "/replays/:session_key", !.param = session_key,
                    !.disk = ReplayDisk(scheduleFile, layoutsFile, driversFile,
                                        teamsFile, found),
                    !.images = images,
                    !.local = IF found THEN l ELSE NoLocals,
                    !.scriptExists = found /\ ~incomplete(l.sessionInfo)
                                        /\ scriptExists]
         IN req' = [req EXCEPT ![r] =
                IF spawns
                THEN [started EXCEPT
                        !.pc = "awaiting",
                        !.proc = Spawned(timingArgs(l.sessionInfo)),
                        !.promise = [NoPromise EXCEPT !.state = "pending"]]
                ELSE [started EXCEPT
                        !.pc = "done", !.responses = out.responses,
                        !.rejected = out.rejected, !.threw = out.threw]]
    /\ UNCHANGED <<version, uncaught>> /\ SlugUnchanged

\* the handler over every modelled content of the disk
GetReplay(r) == GetReplayOn(r, WholeDisk)

\* a fetch that does not look at the error field of the output
raceTimingIgnoringError(promise) ==
    IF promise.state = "rejected" THEN Throw(promise.value)
    ELSE LET parsed == JSONparse(promise.value)
         IN IF ~parsed.ok THEN Throw(SyntaxErrorText)
            ELSE [threw |-> FALSE, status |-> 0, model |-> parsed.value,
                  msg |-> <<>>]

\* what fetchRaceTimingFromPython does with the settled promise
raceTimingOf(promise) ==
    IF promise.state = "rejected" THEN Throw(promise.value)
    ELSE LET parsed == JSONparse(promise.value)
         IN IF ~parsed.ok THEN Throw(SyntaxErrorText)
            ELSE IF Truthy(parsed.value.error)
                 THEN Throw(String(parsed.value.error))
                 ELSE [threw |-> FALSE, status |-> 0, model |-> parsed.value,
                       msg |-> <<>>]

\* router.get('/replays/:session_key') after the await
ReplayResume(r) ==
    /\ ~uncaught /\ req[r].pc = "settled"
    /\ req[r].route = "/replays/:session_key"
    /\ \E faults \in RenderFaults :
         LET l == req[r].local
             fetched == raceTimingOf(req[r].promise)
             body == IF fetched.threw THEN fetched
                     ELSE Ok(200, ReplayModel(req[r].param,
                                 driverDirectoryOf(l.drivers, l.f1Teams),
                                 FinalSessionInfo(l.sessionInfo, l.trackImageUrl,
                                                  l.layout, fetched.model),
                                 Null))
             catchModel(msg) == ReplayCatch(req[r].param, msg)
             out == TryCatchRender(body, "race-tracker", 500,
                                  catchModel(CaughtMsg(body)), faults)
         IN req' = [req EXCEPT ![r].pc = "done",
                               ![r].responses = req[r].responses \o out.responses,
                               ![r].rejected = out.rejected,
                               ![r].threw = out.threw]
    /\ UNCHANGED <<version, uncaught>> /\ SlugUnchanged

-----------------------------------------------------------------------------
(* GET /api/locations/:session_key/:startTime/:endTime in f1api.js *)

StartTimes == {<<"0">>}
EndTimes == {<<"60">>}

JsonError(status, msg) == <<Response(status, "json", "", [error |-> Str(msg)])>>

\* the handler up to the await of runPython
GetLocationsOn(r, env) ==
    /\ ~uncaught /\ req[r].pc = "idle" /\ version = "f1api.js"
    /\ \E session_key \in SessionKeys, startTime \in StartTimes,
          endTime \in EndTimes, scheduleFile \in env.schedules,
          scriptExists \in BOOLEAN :
         LET sessionInfo == sessionOf(readJSON(scheduleFile), session_key)
             found == Truthy(sessionInfo)
             spawns == found /\ ~incomplete(sessionInfo) /\ scriptExists
             sent == IF ~found
                     THEN JsonError(404, <<"Session info not found for the given key.">>)
                     ELSE IF incomplete(sessionInfo)
                          THEN JsonError(500, <<"Incomplete session data to fetch locations.">>)
                          ELSE JsonError(500, <<"get_driver_locations.py was not found">>)
             started == [Idle EXCEPT
                    !.route = "/api/locations", !.param = session_key,
                    !.disk = [NoDisk EXCEPT !.schedule = scheduleFile],
                    !.local = [NoLocals EXCEPT !.sessionInfo = sessionInfo],
                    !.scriptExists = spawns]
         IN req' = [req EXCEPT ![r] =
                IF spawns
                THEN [started EXCEPT
                        !.pc = "awaiting",
                        !.proc = Spawned(<<String(yearOf(sessionInfo)),
                                           String(sessionInfo.meeting_name),
                                           String(sessionInfo.session_name),
                                           startTime, endTime>>),
                        !.promise = [NoPromise EXCEPT !.state = "pending"]]
                ELSE [started EXCEPT !.pc = "done", !.responses = sent]]
    /\ UNCHANGED <<version, uncaught>> /\ SlugUnchanged

\* the handler over every modelled content of the disk
GetLocations(r) == GetLocationsOn(r, WholeDisk)

\* the handler after the await
LocationsResume(r) ==
    /\ ~uncaught /\ req[r].pc = "settled" /\ req[r].route = "/api/locations"
    /\ LET promise == req[r].promise
           parsed == JSONparse(promise.value)
           internal(msg) ==
               JsonError(500, <<"Internal server error while fetching locations: ">>
                                  \o msg)
           sent == IF promise.state = "rejected" THEN internal(promise.value)
                   ELSE IF ~parsed.ok THEN internal(SyntaxErrorText)
                        ELSE <<Response(200, "json", "", parsed.value)>>
       IN req' = [req EXCEPT ![r].pc = "done",
                             ![r].responses = req[r].responses \o sent]
    /\ UNCHANGED <<version, uncaught>> /\ SlugUnchanged

-----------------------------------------------------------------------------
(* GET /api/locations/:session_key/:startTime/:endTime in part_000 *)

\* the handler up to spawn; schedule.json is not read: the model keeps it as
\* it is on disk when the request arrives
GetLocationsPart000On(r, env) ==
    /\ ~uncaught /\ req[r].pc = "idle" /\ version = "part_000"
    /\ \E session_key \in SessionKeys, startTime \in StartTimes,
          endTime \in EndTimes, scheduleFile \in env.schedules,
          scriptExists \in BOOLEAN :
         LET started == [Idle EXCEPT
                    !.route = "/api/locations", !.param = session_key,
                    !.disk = [NoDisk EXCEPT !.schedule = scheduleFile],
                    !.scriptExists = scriptExists]
         IN req' = [req EXCEPT ![r] =
                IF scriptExists
                THEN [started EXCEPT
                        !.pc = "awaiting",
                        !.proc = Spawned(<<session_key, startTime, endTime>>)]
                ELSE [started EXCEPT
                        !.pc = "done",
                        !.responses =
                            JsonError(500, <<"get_driver_locations.py was not found">>)]]
    /\ UNCHANGED <<version, uncaught>> /\ SlugUnchanged

\* the handler over every modelled content of the disk
GetLocationsPart000(r) == GetLocationsPart000On(r, WholeDisk)

\* pythonProcess.stdout.on('data'): output += data.toString()
Part000Stdout(r) ==
    /\ ~uncaught /\ version = "part_000" /\ req[r].proc.state = "running"
    /\ DataLeft(r)
    /\ \E data \in OutChunks :
         req' = [req EXCEPT ![r].proc.stdout = appendChunk(@, data),
                            ![r].proc.outLog = Append(@, data)]
    /\ UNCHANGED <<version, uncaught>> /\ SlugUnchanged

\* pythonProcess.stderr.on('data'): logged, not kept
Part000Stderr(r) ==
    /\ ~uncaught /\ version = "part_000" /\ req[r].proc.state = "running"
    /\ DataLeft(r)
    /\ \E data \in ErrChunks :
         req' = [req EXCEPT ![r].proc.errLog = Append(@, data)]
    /\ UNCHANGED <<version, uncaught>> /\ SlugUnchanged

\* pythonProcess.on('close'): the response is sent from the listener
Part000Close(r) ==
    /\ ~uncaught /\ version = "part_000" /\ req[r].proc.state = "running"
    /\ \E code \in ExitCodes :
         LET parsed == JSONparse(req[r].proc.stdout)
             sent == IF code # Num(0)
                     THEN JsonError(500, <<"server error while fetching the data">>)
                     ELSE IF parsed.ok
                          THEN <<Response(200, "json", "", parsed.value)>>
                          ELSE JsonError(500, <<"could not parse the script output">>)
         IN req' = [req EXCEPT
                      ![r].proc.state = "closed", ![r].proc.code = code,
                      ![r].pc = "done",
                      ![r].responses = req[r].responses \o sent]
    /\ UNCHANGED <<version, uncaught>> /\ SlugUnchanged

-----------------------------------------------------------------------------
(* The server *)

Versions == {"f1api.js", "part_000"}

Init ==
    /\ version \in Versions
    /\ req = [r \in Slots |-> Idle]
    /\ uncaught = FALSE
    /\ slugArg = Null
    /\ slugOut = <<>>
    /\ slugFirst = <<>>
    /\ slugCalls = 0

Handle(r) ==
    \/ GetSchedule(r)
    \/ GetDrivers(r)
    \/ GetDriverDetail(r)
    \/ GetTeams(r)
    \/ GetTeamDetail(r)
    \/ GetGlossary(r)
    \/ GetReplayPart000(r)
    \/ GetReplay(r)
    \/ ReplayResume(r)
    \/ GetLocations(r)
    \/ LocationsResume(r)
    \/ GetLocationsPart000(r)
    \/ PythonStdout(r)
    \/ PythonStderr(r)
    \/ PythonClose(r)
    \/ Part000Stdout(r)
    \/ Part000Stderr(r)
    \/ Part000Close(r)
    \/ SpawnError(r)

Next == Handle("r1")

Spec == Init /\ [][Next]_vars

-----------------------------------------------------------------------------
(* Two requests in flight: the replay page and the locations endpoint *)

\* the disk in this specification: the data the page only displays is absent;
\* the schedule is unreadable, holds both complete sessions or holds the
\* incomplete one
SmallDisk ==
    [schedules |-> {Missing, Json(Arr(<<SessionB, SessionA>>)),
                    Json(Arr(<<SessionC>>))},
     layouts |-> {Missing}, images |-> {{}}, drivers |-> {Missing},
     teams |-> {Missing}]

\* the process output in this specification: python prints the timing object
\* in two pieces or the error object, and writes "Traceback"
SmallOutput(r) ==
    /\ req[r].proc.outLog \in {<<>>, <<ChunkTimingOpen>>,
                               <<ChunkTimingOpen, ChunkClose>>,
                               <<ChunkErrorObject>>}
    /\ \A i \in 1..Len(req[r].proc.errLog) : req[r].proc.errLog[i] = "Traceback"

\* a step of the request in slot r, the other slot's request being anywhere
HandleConcurrently(r) ==
    \/ GetReplayPart000On(r, SmallDisk)
    \/ GetReplayOn(r, SmallDisk)
    \/ ReplayResume(r)
    \/ GetLocationsOn(r, SmallDisk)
    \/ LocationsResume(r)
    \/ GetLocationsPart000On(r, SmallDisk)
    \/ PythonStdout(r) /\ SmallOutput(r)'
    \/ PythonStderr(r) /\ SmallOutput(r)'
    \/ PythonClose(r)
    \/ Part000Stdout(r) /\ SmallOutput(r)'
    \/ Part000Stderr(r) /\ SmallOutput(r)'
    \/ Part000Close(r)
    \/ SpawnError(r)

NextConcurrent == \E r \in Slots : HandleConcurrently(r)

SpecConcurrent == Init /\ [][NextConcurrent]_vars

-----------------------------------------------------------------------------
(* Properties of the handlers (specification Spec) *)

ReplayRoute == "/replays/:session_key"
LocationsRoute == "/api/locations"

Statuses(r) == {req[r].responses[i].status : i \in 1..Len(req[r].responses)}
Finished(r) == req[r].pc = "done"
\* the handler ended with exactly one response and no render call threw
Answered(r, status) ==
    /\ Finished(r) /\ Len(req[r].responses) = 1
    /\ req[r].responses[1].status = status
Unreadable(file) == file \in {Missing, Malformed}

\* the session key of the request matches no entry of schedule.json
KeyAbsent(r) ==
    LET file == req[r].disk.schedule
    IN \/ Unreadable(file)
       \/ /\ file.kind = "json"
          /\ \A i \in 1..Len(file.value.a) :
                String(file.value.a[i].session_key) # req[r].param

\* C1: a session key that matches no entry of schedule.json (also when the file
\* is missing or malformed) is answered with 404, never with 500, by the replay
\* page and by the locations endpoint of either version, and the external
\* process is not started (requests whose render call throws are left aside).
C1_AbsentKeyIsNotFound ==
    \A r \in Slots :
        (req[r].route \in {ReplayRoute, LocationsRoute} /\ KeyAbsent(r)
            /\ req[r].threw = 0)
        => /\ req[r].proc.state = "none"
           /\ Statuses(r) \subseteq {404}

\* C2: no failure while a request is handled reaches the process as an uncaught
\* error, the child process emitting 'error' included.
C2_NothingUncaught == uncaught = FALSE

\* the exit-code text of runPython's rejection
ExitCodeText(code) ==
    <<"Python script exited with code ">>
        \o (IF code = Null THEN <<"n", "u", "l", "l">> ELSE DecimalDigits(code.n))

\* C3: runPython settles once and only at 'close': with code 0 it resolves with
\* all of standard output in the order of the data events, whatever came on
\* standard error; with another code it rejects with a non-empty message, the
\* trimmed standard error or else a text with the exit code.
C3_RunPythonSettlesAtClose ==
    \A r \in Slots :
        LET q == req[r]
            errText == trim(q.proc.errLog)
        IN q.promise.state # "none" =>
            /\ q.proc.state \in {"running", "errored"}
                  => q.promise.state = "pending" /\ q.promise.settles = 0
            /\ q.proc.state = "closed"
                  => /\ q.promise.settles = 1
                     /\ q.proc.code = Num(0)
                           => /\ q.promise.state = "resolved"
                              /\ q.promise.value = q.proc.outLog
                     /\ q.proc.code # Num(0)
                           => /\ q.promise.state = "rejected"
                              /\ q.promise.value # <<>>
                              /\ q.promise.value =
                                    IF errText # <<>> THEN errText
                                    ELSE ExitCodeText(q.proc.code)

\* python printed two different pieces and wrote to standard error, then
\* exited with 0
C3_Witness ==
    \E r \in Slots :
        /\ req[r].proc.state = "closed" /\ req[r].proc.code = Num(0)
        /\ req[r].promise.state = "resolved"
        /\ req[r].proc.outLog = <<ChunkTimingOpen, ChunkClose>>
        /\ req[r].proc.errLog # <<>>

\* C4: readJSON gives null for a missing or malformed file, and with
\* drivers.json, teams.json or driver_descriptions.json missing or malformed
\* the driver and team detail pages do not answer 500 (requests whose render
\* call throws are left aside).
C4_NullDataIsNot500 ==
    \A r \in Slots :
        (/\ req[r].route \in {"/drivers/:driverId", "/teams/:teamId"}
         /\ req[r].threw = 0
         /\ \/ Unreadable(req[r].disk.drivers)
            \/ Unreadable(req[r].disk.teams)
            \/ Unreadable(req[r].disk.descriptions))
        => 500 \notin Statuses(r)

\* the entries of drivers.json whose full name derives the requested slug
SlugHits(r) ==
    LET ds == req[r].disk.drivers.value.a
    IN {i \in 1..Len(ds) : slugify(ds[i].full_name) = req[r].param}

DriverDetailOf(r) ==
    req[r].route = "/drivers/:driverId" /\ Finished(r)
        /\ req[r].disk.drivers.kind = "json"

ReplayRendered(r) == req[r].route = ReplayRoute /\ Answered(r, 200)

\* the extension order the policy names
PolicyOrder == <<"avif", "png", "webp", "jpg", "jpeg">>

\* C8: on the replay page trackImageUrl names the normalized circuit name plus
\* the first extension in the order avif, png, webp, jpg, jpeg whose file
\* exists; it is null when no such file exists or the session has no circuit
\* name.
C8_TrackImageByPriority ==
    \A r \in Slots :
        ReplayRendered(r) =>
            LET shown == req[r].responses[1].model.sessionInfo
                name == circuitNameOf(shown)
                exists(k) == ImageName(name.s, PolicyOrder[k]) \in req[r].images
            IN IF ~Truthy(name) \/ \A k \in 1..Len(PolicyOrder) : ~exists(k)
               THEN shown.trackImageUrl = Null
               ELSE \E k \in 1..Len(PolicyOrder) :
                       /\ exists(k)
                       /\ \A j \in 1..(k - 1) : ~exists(j)
                       /\ shown.trackImageUrl =
                             Str(<<"/images/tracks/">>
                                    \o ImageName(name.s, PolicyOrder[k]))

\* ba-h.png exists with lower-priority files and ba-h.avif does not; f1api.js
\* rendered the page with the .png
C8_Witness ==
    \E r \in Slots :
        /\ ReplayRendered(r) /\ version = "f1api.js"
        /\ req[r].images = {ImageName(<<"b", "a", "-", "h">>, ext) :
                               ext \in {"png", "webp", "jpg", "jpeg"}}
        /\ req[r].responses[1].model.sessionInfo.trackImageUrl
              = Str(<<"/images/tracks/", "b", "a", "-", "h", ".", "png">>)

\* the session of the request is in schedule.json and its circuit has no entry
\* in track_layouts.json, or that file is missing or malformed
FoundWithoutLayout(r) ==
    /\ req[r].route = ReplayRoute /\ Finished(r) /\ ~KeyAbsent(r)
    /\ LET file == req[r].disk.layouts
           name == circuitNameOf(req[r].local.sessionInfo)
       IN \/ Unreadable(file)
          \/ /\ file.kind = "json"
             /\ \A i \in 1..Len(file.value.a) :
                   file.value.a[i].circuit_short_name # name

\* the race timing of the request was fetched: part_000 fetches none; f1api.js
\* needs year, event and session name, the script, exit code 0 and JSON output
\* without an error field
TimingFetched(r) ==
    \/ version = "part_000"
    \/ /\ ~incomplete(req[r].local.sessionInfo)
       /\ req[r].scriptExists
       /\ req[r].proc.state = "closed" /\ req[r].proc.code = Num(0)
       /\ req[r].proc.outLog = <<ChunkTimingOpen, ChunkClose>>

PageRoutes ==
    {"/schedule", "/drivers", "/drivers/:driverId", "/teams", "/teams/:teamId",
     "/glossary", ReplayRoute}

\* C10: every page handler answers a failure with status 404 (entity not
\* found) or 500 (anything unexpected) and a non-empty error message in the
\* view model; no response that carries an error has status 200.
C10_FailuresAreNot200 ==
    \A r \in Slots :
        req[r].route \in PageRoutes =>
            \A i \in 1..Len(req[r].responses) :
                LET res == req[r].responses[i]
                IN /\ res.model.error # Null => res.status \in {404, 500}
                   /\ res.status \in {404, 500}
                         => res.model.error.t = "string" /\ res.model.error.s # <<>>

-----------------------------------------------------------------------------
(* Properties of requests in flight together (specification SpecConcurrent) *)

ProcessRoutes == {ReplayRoute, LocationsRoute}

\* no request has more than one response
AtMostOneResponse ==
    \A r \in Slots : Len(req[r].responses) <= 1

\* a request whose process was started and has not closed has no response
NoResponseBeforeClose ==
    \A r \in Slots :
        req[r].proc.state \in {"running", "errored"} => req[r].responses = <<>>

\* a handler of these routes that ran to its end, its process closed or never
\* started, sent one response, or none when its render call threw again in the catch block
OneResponseUnlessRethrown ==
    \A r \in Slots :
        (/\ req[r].route \in ProcessRoutes /\ Finished(r)
         /\ req[r].proc.state \in {"none", "closed"})
        => /\ Len(req[r].responses) = IF req[r].rejected THEN 0 ELSE 1
           /\ req[r].rejected
                 => req[r].route = ReplayRoute /\ req[r].threw >= 1

\* C11: under every interleaving of the process events and of another request,
\* a request to /replays or /api/locations gets at most one response, none
\* while its started process has not closed, and exactly one once the handler
\* ran to its end with the process closed or never started.
C11_ExactlyOneResponse ==
    \A r \in Slots :
        req[r].route \in ProcessRoutes =>
            /\ Len(req[r].responses) <= 1
            /\ req[r].proc.state \in {"running", "errored"}
                  => req[r].responses = <<>>
            /\ (Finished(r) /\ req[r].proc.state \in {"none", "closed"})
                  => Len(req[r].responses) = 1

-----------------------------------------------------------------------------
(* Stand-alone calls of slugify *)

SlugChars == {"A", "a", "7", " ", "-", "!"}

RECURSIVE TextsUpTo(_)
TextsUpTo(n) ==
    IF n = 0 THEN {<<>>}
    ELSE LET shorter == TextsUpTo(n - 1)
         IN shorter \cup {Append(s, c) : s \in shorter, c \in SlugChars}

SlugInputs ==
    {Null, Undefined, Num(0), Num(44)} \cup {Str(s) : s \in TextsUpTo(MaxLen)}

SlugInit ==
    /\ version = "f1api.js"
    /\ req = [r \in Slots |-> Idle]
    /\ uncaught = FALSE
    /\ slugArg \in SlugInputs
    /\ slugOut = <<>>
    /\ slugFirst = <<>>
    /\ slugCalls = 0

\* a caller derives an identifier from a name
SlugifyCall ==
    /\ slugCalls = 0
    /\ slugOut' = slugify(slugArg)
    /\ slugFirst' = slugify(slugArg)
    /\ slugCalls' = 1
    /\ UNCHANGED <<version, req, uncaught, slugArg>>

\* the identifier comes back as a path parameter and is derived again
SlugifyAgain ==
    /\ slugCalls = 1
    /\ slugOut' = slugify(Str(slugOut))
    /\ slugCalls' = 2
    /\ UNCHANGED <<version, req, uncaught, slugArg, slugFirst>>

SlugNext == SlugifyCall \/ SlugifyAgain

SpecSlug == SlugInit /\ [][SlugNext]_vars

-----------------------------------------------------------------------------
(* Properties of slugify (specification SpecSlug) *)

SlugAlphabet == LowerLetters \cup DigitChars \cup {"-"}

OnlySlugAlphabet(s) == \A i \in 1..Len(s) : s[i] \in SlugAlphabet
LeadingHyphen(s) == s # <<>> /\ s[1] = "-"
TrailingHyphen(s) == s # <<>> /\ s[Len(s)] = "-"
DoubleHyphen(s) == \E i \in 1..(Len(s) - 1) : s[i] = "-" /\ s[i + 1] = "-"

\* the text slugify works on: String(text || '')
SlugSource(text) == IF Truthy(text) THEN String(text) ELSE <<>>

HasChar(s, set) == \E i \in 1..Len(s) : s[i] \in set

\* the first and the last character that is not white space are both kept
EndsKept(s) ==
    LET core == trim(s)
    IN core = <<>> \/ (/\ LowerChar(core[1]) \in LowerLetters \cup DigitChars
                       /\ LowerChar(core[Len(core)]) \in LowerLetters \cup DigitChars)

\* C6: slugify is idempotent: deriving the slug of a slug gives the slug back,
\* for null, undefined, empty, white-space-only and mixed texts alike.
C6_SlugifyIdempotent == slugCalls = 2 => slugOut = slugFirst

\* a text with punctuation, white space and a hyphen was derived twice
C6_Witness ==
    /\ slugCalls = 2
    /\ slugArg.t = "string"
    /\ HasChar(slugArg.s, {"!"}) /\ HasChar(slugArg.s, WhiteSpace)
    /\ HasChar(slugArg.s, {"-"}) /\ HasChar(slugArg.s, {"A"})
    /\ slugFirst # <<>> /\ slugFirst # slugArg.s

\* C7 as stated: only a-z, 0-9 and hyphens, no leading hyphen, no trailing
\* hyphen, and two hyphens in a row only where white space was replaced.
C7_AsStated ==
    slugCalls >= 1 =>
        /\ OnlySlugAlphabet(slugFirst)
        /\ ~LeadingHyphen(slugFirst)
        /\ ~TrailingHyphen(slugFirst)
        /\ (~HasChar(SlugSource(slugArg), WhiteSpace) => ~DoubleHyphen(slugFirst))

\* C7 (amended): the output holds only a-z, 0-9 and hyphens; it has no leading,
\* trailing or doubled hyphen when the input has no hyphen of its own and its
\* first and last characters that are not white space are kept by slugify.
C7_SlugShape ==
    slugCalls >= 1 =>
        /\ OnlySlugAlphabet(slugFirst)
        /\ (~HasChar(SlugSource(slugArg), {"-"}) /\ EndsKept(SlugSource(slugArg))
              => /\ ~LeadingHyphen(slugFirst)
                 /\ ~TrailingHyphen(slugFirst)
                 /\ ~DoubleHyphen(slugFirst))

\* a text with a removed character beside white space between two kept ones
C7_Witness ==
    /\ slugCalls >= 1
    /\ slugArg.t = "string"
    /\ ~HasChar(slugArg.s, {"-"}) /\ EndsKept(slugArg.s)
    /\ HasChar(slugArg.s, {"!"}) /\ HasChar(slugArg.s, WhiteSpace)
    /\ HasChar(slugFirst, {"-"})

====
